---- MODULE Spec2Model ----
(***************************************************************************)
(* Model of evaluate_final_3hangye_v2.py: the attribute parsers, the       *)
(* oracle client llm_check, the consultation stage stage_1_llm_judgment    *)
(* and the scoring stage stage_2_calculate_metrics.                        *)
(*                                                                         *)
(* A Python string is a sequence of one-character strings.  The non-ASCII  *)
(* characters and words of the source are written with ASCII stand-ins:    *)
(*   FWCOMMA  the full-width comma        FWCOLON  the full-width colon     *)
(*   WU       the one-character "none" sentinel                            *)
(*   SHI/FOU  the "yes"/"no" words        ZHUGUAN/KEGUAN  the               *)
(*   "subjective"/"objective" words of the oracle's reply                  *)
(***************************************************************************)
EXTENDS Integers, Sequences, FiniteSets, TLC

(***************************************************************************)
(* Characters                                                              *)
(***************************************************************************)
COMMA == ","
FWCOMMA == "fw,"
COLON == ":"
FWCOLON == "fw:"
SPACE == " "
WU == "wu"

Whitespace == {SPACE}

\* A missing cell (pandas NaN), distinct from every string.
NaN == <<"NaN">>

\* The literal strings the parsers compare a cell or an item with.
StrWu == <<WU>>
StrNan == <<"n", "a", "n">>

(***************************************************************************)
(* Python string primitives                                                *)
(***************************************************************************)
RECURSIVE LStrip(_)
LStrip(s) ==
    IF s # <<>> /\ Head(s) \in Whitespace THEN LStrip(Tail(s)) ELSE s

RECURSIVE RStrip(_)
RStrip(s) ==
    IF s # <<>> /\ s[Len(s)] \in Whitespace
    THEN RStrip(SubSeq(s, 1, Len(s) - 1))
    ELSE s

\* str.strip()
Strip(s) == RStrip(LStrip(s))

\* str.replace(a, b) for one-character a and b
Replace(s, a, b) == [i \in 1..Len(s) |-> IF s[i] = a THEN b ELSE s[i]]

\* sep in s
HasChar(s, sep) == \E i \in 1..Len(s) : s[i] = sep

\* str.split(sep): always at least one piece
RECURSIVE Split(_, _)
Split(s, sep) ==
    IF ~HasChar(s, sep)
    THEN <<s>>
    ELSE LET i == CHOOSE k \in 1..Len(s) :
                      s[k] = sep /\ \A j \in 1..(k - 1) : s[j] # sep
         IN  <<SubSeq(s, 1, i - 1)>> \o Split(SubSeq(s, i + 1, Len(s)), sep)

\* [f(x) for x in xs]
StripAll(xs) == [i \in 1..Len(xs) |-> Strip(xs[i])]

\* sep.join(xs)
RECURSIVE Join(_, _)
Join(xs, sep) ==
    IF xs = <<>> THEN <<>>
    ELSE IF Len(xs) = 1 THEN xs[1]
    ELSE xs[1] \o <<sep>> \o Join(Tail(xs), sep)

\* x in xs, for a list xs
InList(x, xs) == \E i \in 1..Len(xs) : xs[i] = x

(***************************************************************************)
(* The attribute parsers                                                   *)
(***************************************************************************)
\* The guard shared by the three parsers: a missing, empty, "none" or "nan"
\* cell.
IsBlankCell(c) == c = NaN \/ c = <<>> \/ c = StrWu \/ c = StrNan

\* One item of a label-side F cell.
LabelFItem(item) ==
    IF HasChar(item, FWCOLON) THEN Strip(Split(item, FWCOLON)[2])
    ELSE IF HasChar(item, COLON) THEN Strip(Split(item, COLON)[2])
    ELSE item

\* One item of a predicted F cell.
PredFItem(item) ==
    IF HasChar(item, COLON) THEN Strip(Split(item, COLON)[2]) ELSE item

KeepFItem(item) == item # <<>> /\ item # StrWu /\ item # StrNan

RECURSIVE FItems(_, _)
FItems(items, predSide) ==
    IF items = <<>> THEN <<>>
    ELSE LET item == Head(items)
             rest == FItems(Tail(items), predSide)
         IN  IF KeepFItem(item)
             THEN <<IF predSide THEN PredFItem(item) ELSE LabelFItem(item)>> \o rest
             ELSE rest

parse_f_attribute_string(f_str) ==
    IF IsBlankCell(f_str) THEN <<>>
    ELSE FItems(StripAll(Split(Replace(Strip(f_str), FWCOMMA, COMMA), COMMA)), FALSE)

parse_pred_f_attribute(f_str) ==
    IF IsBlankCell(f_str) THEN <<>>
    ELSE FItems(StripAll(Split(Replace(Strip(f_str), FWCOMMA, COMMA), COMMA)), TRUE)

KeepABItem(item) == Strip(item) # <<>> /\ Strip(item) # StrNan

RECURSIVE ABItems(_)
ABItems(items) ==
    IF items = <<>> THEN <<>>
    ELSE IF KeepABItem(Head(items))
         THEN <<Strip(Head(items))>> \o ABItems(Tail(items))
         ELSE ABItems(Tail(items))

parse_ab_attribute(ab_str) ==
    IF IsBlankCell(ab_str) THEN <<>>
    ELSE ABItems(Split(Replace(ab_str, FWCOMMA, COMMA), COMMA))

(***************************************************************************)
(* Oracle replies                                                          *)
(***************************************************************************)
SHI == "shi"
FOU == "fou"
ZHUGUAN == "zhuguan"
KEGUAN == "keguan"

\* The sentinel llm_check returns when every attempt failed.
ERROR == <<"error">>

\* What a Python function returns when it falls off its end.
None == <<"None">>

\* The words that open and close a JSON object, and the keys of its fields.
LBRACE == "{"
RBRACE == "}"
JUDGE_1 == "judge_1"
JUDGE_2 == "judge_2"

\* The object of the output format followed by a remark: the equivalence
\* field says no, the remark holds the yes word.
NoWithRemark == <<LBRACE, JUDGE_1, FOU, JUDGE_2, ZHUGUAN, RBRACE, SHI>>

\* The replies the oracle gives: the words of its answer, in order.
Replies == {<<SHI, ZHUGUAN>>, <<SHI, KEGUAN>>, <<FOU, KEGUAN>>, NoWithRemark}

\* word in res
HasWord(res, word) == \E i \in 1..Len(res) : res[i] = word

\* llm_response.find('{') and llm_response.rfind('}'), for a word that occurs.
Find(s, word) == CHOOSE i \in 1..Len(s) : s[i] = word /\ \A j \in 1..(i - 1) : s[j] # word
RFind(s, word) == CHOOSE i \in 1..Len(s) : s[i] = word /\ \A j \in (i + 1)..Len(s) : s[j] # word

\* json.loads(json_str) succeeds: an opening brace, key and value words in
\* pairs, a closing brace.
IsJsonObject(json_str) ==
    /\ Len(json_str) >= 2
    /\ Len(json_str) % 2 = 0
    /\ json_str[1] = LBRACE
    /\ json_str[Len(json_str)] = RBRACE
    /\ \A i \in 2..(Len(json_str) - 1) : json_str[i] \notin {LBRACE, RBRACE}

\* result.get(key, ''): the last field with that key, the empty string if none.
JsonGet(json_str, key) ==
    LET fields == {k \in 1..((Len(json_str) - 2) \div 2) : json_str[2 * k] = key}
    IN  IF fields = {} THEN <<>>
        ELSE <<json_str[2 * (CHOOSE k \in fields : \A j \in fields : j <= k) + 1]>>

\* The pair (judge_1, judge_2) read from a reply.
parse_llm_result(llm_response) ==
    IF llm_response = ERROR \/ llm_response = <<>> THEN <<None, None>>
    ELSE IF HasWord(llm_response, LBRACE) /\ HasWord(llm_response, RBRACE)
    THEN LET json_str == SubSeq(llm_response, Find(llm_response, LBRACE),
                                RFind(llm_response, RBRACE))
         IN  IF IsJsonObject(json_str)
             THEN <<JsonGet(json_str, JUDGE_1), JsonGet(json_str, JUDGE_2)>>
             ELSE <<None, None>>
    ELSE <<IF HasWord(llm_response, SHI) THEN <<SHI>> ELSE <<FOU>>,
           IF HasWord(llm_response, ZHUGUAN) THEN <<ZHUGUAN>> ELSE <<KEGUAN>>>>

(***************************************************************************)
(* State                                                                   *)
(***************************************************************************)
VARIABLES
    cell, parser, parsed,          \* the parsers: raw cell, parser applied, result
    now,                           \* time.time(), in ticks
    last_request_time,             \* the module-level timestamp
    lc_pc,                         \* llm_check: "idle", "attempt", "request"
    retry,                         \* llm_check's loop variable
    lc_ret,                        \* what the last llm_check call returned
    calls,                         \* llm_check calls started
    attempts,                      \* requests sent by the current call
    attempt_total,                 \* requests sent in the whole run
    got_reply,                     \* the reply of the attempt that succeeded
    rate_slept,                    \* the last attempt had to sleep for the interval
    data,                          \* the table, a sequence of rows
    stage,                         \* "load", "stage1", "stage2", "done"
    idx,                           \* the loop variable of either stage, from 1
    llm_call_total,
    run,                           \* how many times stage 2 was started
    jingque_c, jingque_c_all,
    zhaohui_c, zhaohui_c_all,
    fenlei_c, fenlei_c_all,
    industry_stats,
    row_pc,                        \* stage 2, inside a row: "row", "precision", "recall"
    pos,                           \* the item the precision or recall loops are at
    jingque_error_list, zhaohui_error_list, fenlei_error_list,
    row_start,                     \* the six row_*_start values
    lists,                         \* the six parsed lists of the row
    llm_results,                   \* the consultations of the row, as loaded
    first_run                      \* what the first run of stage 2 produced

parseVars == <<cell, parser, parsed>>
oracleVars == <<now, last_request_time, lc_pc, retry, lc_ret, calls, attempts,
                attempt_total, got_reply, rate_slept>>
stage2Vars == <<run, jingque_c, jingque_c_all, zhaohui_c, zhaohui_c_all, fenlei_c,
                fenlei_c_all, industry_stats, row_pc, pos, jingque_error_list,
                zhaohui_error_list, fenlei_error_list, row_start, lists,
                llm_results, first_run>>
pipelineVars == <<data, stage, idx, llm_call_total, stage2Vars>>
vars == <<parseVars, oracleVars, pipelineVars>>

\* No parser has been applied.
ParseIdle ==
    /\ cell = <<>>
    /\ parser = "none"
    /\ parsed = <<>>

(***************************************************************************)
(* Bounds of the model                                                     *)
(***************************************************************************)
MaxCellLen == 4
MaxCalls == 2
MaxDelay == 1
MaxRows == 2
MaxRuns == 2
TicksPerSecond == 2
Epoch == 10

(***************************************************************************)
(* llm_check                                                               *)
(***************************************************************************)
request_interval == 1 * TicksPerSecond
max_retries == 10

FailureKinds == {"429", "other"}

\* wait_time of the except branch: 2 seconds for either kind of failure.
wait_time(kind) == IF kind = "429" THEN 2 * TicksPerSecond ELSE 2 * TicksPerSecond

\* The rate control sleeping for the time already waited instead of the time
\* that is left.
RateSleep_TimeWaited(time_since_last) ==
    IF time_since_last < request_interval THEN time_since_last ELSE 0

\* sleep_time of the rate control, 0 when no sleep is needed.
RateSleep(time_since_last) ==
    IF time_since_last < request_interval
    THEN request_interval - time_since_last
    ELSE 0

\* The last failure waits and retries as well: retry < max_retries.
ShouldRetry_OffByOne(r) == r < max_retries

\* retry < max_retries - 1: another attempt follows this failure.
ShouldRetry(r) == r < max_retries - 1

OracleIdle ==
    /\ now = Epoch
    /\ last_request_time = 0
    /\ lc_pc = "idle"
    /\ retry = 0
    /\ lc_ret = None
    /\ calls = 0
    /\ attempts = 0
    /\ attempt_total = 0
    /\ got_reply = None
    /\ rate_slept = FALSE

\* A caller enters llm_check, some time after the previous call returned.
LlmCheckCall ==
    /\ lc_pc = "idle"
    /\ calls < MaxCalls
    /\ calls' = calls + 1
    /\ retry' = 0
    /\ attempts' = 0
    /\ lc_ret' = None
    /\ got_reply' = None
    /\ lc_pc' = "attempt"
    /\ \E d \in 0..MaxDelay : now' = now + d
    /\ UNCHANGED <<last_request_time, attempt_total, rate_slept>>
    /\ UNCHANGED <<parseVars, pipelineVars>>

\* The head of the try block: rate control, then the request is sent.
LlmCheckAttempt ==
    /\ lc_pc = "attempt"
    /\ LET current_time == now
           sleep_time == RateSleep(current_time - last_request_time)
       IN  /\ \E d \in 0..MaxDelay : now' = current_time + sleep_time + d
           /\ rate_slept' = (sleep_time > 0)
    /\ last_request_time' = now'
    /\ attempts' = attempts + 1
    /\ attempt_total' = attempt_total + 1
    /\ lc_pc' = "request"
    /\ UNCHANGED <<retry, lc_ret, calls, got_reply>>
    /\ UNCHANGED <<parseVars, pipelineVars>>

\* The request succeeds: its reply is returned.
LlmCheckSuccess ==
    /\ lc_pc = "request"
    /\ \E reply \in Replies :
          /\ got_reply' = reply
          /\ lc_ret' = reply
    /\ \E d \in 0..MaxDelay : now' = now + d
    /\ lc_pc' = "idle"
    /\ UNCHANGED <<last_request_time, retry, calls, attempts, attempt_total, rate_slept>>
    /\ UNCHANGED <<parseVars, pipelineVars>>

\* The request raises: the except branch waits and the loop goes on, or the
\* sentinel is returned.  A loop that ends without a return returns None.
LlmCheckFailure ==
    /\ lc_pc = "request"
    /\ \E kind \in FailureKinds :
          IF ShouldRetry(retry)
          THEN /\ \E d \in 0..MaxDelay : now' = now + wait_time(kind) + d
               /\ IF retry + 1 < max_retries
                  THEN /\ retry' = retry + 1
                       /\ lc_pc' = "attempt"
                       /\ UNCHANGED lc_ret
                  ELSE /\ lc_pc' = "idle"
                       /\ lc_ret' = None
                       /\ UNCHANGED retry
          ELSE /\ lc_ret' = ERROR
               /\ lc_pc' = "idle"
               /\ UNCHANGED <<now, retry>>
    /\ UNCHANGED <<last_request_time, calls, attempts, attempt_total, got_reply, rate_slept>>
    /\ UNCHANGED <<parseVars, pipelineVars>>

OracleNext ==
    \/ LlmCheckCall
    \/ LlmCheckAttempt
    \/ LlmCheckSuccess
    \/ LlmCheckFailure

(***************************************************************************)
(* The table                                                               *)
(***************************************************************************)
TARGET_INDUSTRIES == <<"fitness_center", "billiards", "sports_training">>

IsTarget(industry) == \E i \in 1..Len(TARGET_INDUSTRIES) : TARGET_INDUSTRIES[i] = industry

\* json.dumps / json.loads of a consultation list.  The encoding of the empty
\* list is not the empty string.
JsonDumps(list) == <<"json", list>>
JsonLoads(text) == text[2]

\* The six parsed lists of a row.
Lists(row) ==
    [label_f_list   |-> parse_f_attribute_string(row.F),
     label_a_list   |-> parse_ab_attribute(row.A),
     label_b_list   |-> parse_ab_attribute(row.B),
     predict_f_list |-> parse_pred_f_attribute(row.pred_F),
     predict_a_list |-> parse_ab_attribute(row.pred_A),
     predict_b_list |-> parse_ab_attribute(row.pred_B)]

\* The six lists before any row was parsed.
NoLists ==
    [label_f_list |-> <<>>, label_a_list |-> <<>>, label_b_list |-> <<>>,
     predict_f_list |-> <<>>, predict_a_list |-> <<>>, predict_b_list |-> <<>>]

\* "not label_f_list and not label_a_list and ... and not predict_b_list"
AllEmpty(l) ==
    /\ l.label_f_list = <<>> /\ l.label_a_list = <<>> /\ l.label_b_list = <<>>
    /\ l.predict_f_list = <<>> /\ l.predict_a_list = <<>> /\ l.predict_b_list = <<>>

zhuguan_label_list(l) == l.label_a_list \o l.label_b_list
keguan_label_list(l) == l.label_f_list
zhuguan_predict_list(l) == l.predict_a_list \o l.predict_b_list
keguan_predict_list(l) == l.predict_f_list

\* A list of values as the items of one origin.
Tagged(list, tag) == [i \in 1..Len(list) |-> [origin |-> tag, value |-> list[i]]]

\* The predicted items in the order the loops visit them: A, then B, then F.
PredItems(l) ==
    Tagged(l.predict_a_list, "a") \o Tagged(l.predict_b_list, "b")
        \o Tagged(l.predict_f_list, "f")

\* The labeled items in the order the loops visit them: A, then B, then F.
LabelItems(l) ==
    Tagged(l.label_a_list, "a") \o Tagged(l.label_b_list, "b")
        \o Tagged(l.label_f_list, "f")

\* The 'type' of a consultation.
PredictType(tag) ==
    IF tag = "a" THEN "predict_a" ELSE IF tag = "b" THEN "predict_b" ELSE "predict_f"

LabelType(tag) ==
    IF tag = "a" THEN "label_a" ELSE IF tag = "b" THEN "label_b" ELSE "label_f"

\* The test of a predicted item looking at the subjective labels only.
PredUnmatched_SubjectiveOnly(l, v) == ~InList(v, zhuguan_label_list(l))

\* "x not in zhuguan_label_list and x not in keguan_label_list"
PredUnmatched(l, v) ==
    ~InList(v, zhuguan_label_list(l)) /\ ~InList(v, keguan_label_list(l))

LabelUnmatched(l, v) ==
    ~InList(v, zhuguan_predict_list(l)) /\ ~InList(v, keguan_predict_list(l))

RECURSIVE Filter(_, _, _, _)
\* The items of a list that need the oracle, as (type, value) requests.
Filter(items, l, predSide, k) ==
    IF k > Len(items) THEN <<>>
    ELSE LET it == items[k]
             rest == Filter(items, l, predSide, k + 1)
         IN  IF predSide
             THEN IF PredUnmatched(l, it.value)
                  THEN <<[type |-> PredictType(it.origin), value |-> it.value]>> \o rest
                  ELSE rest
             ELSE IF LabelUnmatched(l, it.value)
                  THEN <<[type |-> LabelType(it.origin), value |-> it.value]>> \o rest
                  ELSE rest

\* The llm_check calls stage 1 makes for a row, in order.
Consultations(l) ==
    Filter(PredItems(l), l, TRUE, 1) \o Filter(LabelItems(l), l, FALSE, 1)

\* What llm_check can return to stage 1.
LlmReturns == Replies \cup {ERROR}

(***************************************************************************)
(* stage_1_llm_judgment                                                    *)
(***************************************************************************)
\* data['llm_judge_results'] = '' ; data['llm_call_count'] = 0
Stage1Start ==
    /\ stage = "load"
    /\ data' = [i \in 1..Len(data) |->
                   [data[i] EXCEPT !.llm_judge_results = <<>>, !.llm_call_count = 0]]
    /\ llm_call_total' = 0
    /\ idx' = 1
    /\ stage' = "stage1"
    /\ UNCHANGED <<stage2Vars>>
    /\ UNCHANGED <<parseVars, oracleVars>>

\* One iteration of the loop over the rows: every llm_check call of the row.
Stage1Row ==
    /\ stage = "stage1"
    /\ idx <= Len(data)
    /\ LET row == data[idx]
           l == Lists(row)
           reqs == Consultations(l)
       IN  IF ~IsTarget(row.category) \/ AllEmpty(l)
           THEN UNCHANGED <<data, llm_call_total>>
           ELSE \E res \in [1..Len(reqs) -> LlmReturns] :
                   LET row_results ==
                           [k \in 1..Len(reqs) |->
                               [type |-> reqs[k].type, value |-> reqs[k].value,
                                llm_response |-> res[k]]]
                   IN  /\ data' = [data EXCEPT
                                      ![idx].llm_judge_results = JsonDumps(row_results),
                                      ![idx].llm_call_count = Len(row_results)]
                       /\ llm_call_total' = llm_call_total + Len(row_results)
    /\ idx' = idx + 1
    /\ UNCHANGED <<stage, stage2Vars>>
    /\ UNCHANGED <<parseVars, oracleVars>>

(***************************************************************************)
(* stage_2_calculate_metrics                                               *)
(***************************************************************************)
ZeroStats ==
    [jingque_c |-> 0, jingque_c_all |-> 0, zhaohui_c |-> 0, zhaohui_c_all |-> 0,
     fenlei_c |-> 0, fenlei_c_all |-> 0, count |-> 0]

\* The counters kept from the previous run instead of starting at 0.
InitialCount_Kept(previous) == previous

\* The value a counter of stage 2 starts a run with.
InitialCount(previous) == 0

\* llm_results_dict.get((type, value), 'error'): the last entry of the list
\* with that key wins.
DictGet(results, type, value) ==
    LET hits == {k \in 1..Len(results) :
                    results[k].type = type /\ results[k].value = value}
    IN  IF hits = {} THEN ERROR
        ELSE results[CHOOSE k \in hits : \A j \in hits : j <= k].llm_response

\* "json.loads(llm_results_json) if llm_results_json else []"
LoadResults(row) ==
    IF row.llm_judge_results = <<>> THEN <<>> ELSE JsonLoads(row.llm_judge_results)

\* res != 'error' and '<yes>' in res
IsYes(res) == res # ERROR /\ HasWord(res, SHI)

\* The word of the reply that agrees with the origin of a predicted item.
ExpectedWord(origin) == IF origin = "f" THEN KEGUAN ELSE ZHUGUAN

\* f"{origin},{value}"
ErrorEntry(origin, value) == <<origin, COMMA>> \o value

\* The F loop looking at the objective list first.
ExactClassified_ObjectiveFirst(origin, inZhuguan, inKeguan) ==
    IF origin = "f" THEN inKeguan ELSE inZhuguan

\* The branch of the precision loop an exactly matched item takes:
\* is it a classification hit?
ExactClassified(origin, inZhuguan, inKeguan) ==
    IF origin = "f" THEN ~inZhuguan ELSE inZhuguan

\* An except-style branch that never recognises the sentinel.
IsPrecisionError_Never(res) == FALSE

\* elif res == 'error': the item goes to the precision-error trace.
IsPrecisionError(res) == res = ERROR

\* A precision hit whose classification is never logged as wrong.
IsClassificationError_Never(ok) == FALSE

\* The else branch of a precision hit: the item is not a classification hit
\* and goes to the classification-error trace.
IsClassificationError(ok) == ~ok

\* What one predicted item adds: hit and cls are 0 or 1, the two flags say
\* whether the item is appended to an error list.
PrecisionOutcome(it, l, results) ==
    LET inZhuguan == InList(it.value, zhuguan_label_list(l))
        inKeguan == InList(it.value, keguan_label_list(l))
        res == DictGet(results, PredictType(it.origin), it.value)
    IN  IF inZhuguan \/ inKeguan
        THEN LET ok == ExactClassified(it.origin, inZhuguan, inKeguan)
             IN  [hit |-> 1, cls |-> IF ok THEN 1 ELSE 0,
                  fenlei_error |-> IsClassificationError(ok), jingque_error |-> FALSE]
        ELSE IF IsYes(res)
        THEN LET ok == HasWord(res, ExpectedWord(it.origin))
             IN  [hit |-> 1, cls |-> IF ok THEN 1 ELSE 0,
                  fenlei_error |-> IsClassificationError(ok), jingque_error |-> FALSE]
        ELSE [hit |-> 0, cls |-> 0, fenlei_error |-> FALSE,
              jingque_error |-> IsPrecisionError(res)]

\* What one labeled item adds.
RecallOutcome(it, l, results) ==
    LET res == DictGet(results, LabelType(it.origin), it.value)
    IN  IF InList(it.value, zhuguan_predict_list(l)) THEN [hit |-> 1, zhaohui_error |-> FALSE]
        ELSE IF InList(it.value, keguan_predict_list(l)) THEN [hit |-> 1, zhaohui_error |-> FALSE]
        ELSE IF IsYes(res) THEN [hit |-> 1, zhaohui_error |-> FALSE]
        ELSE [hit |-> 0, zhaohui_error |-> TRUE]

\* predict_total without the F list.
PredictTotal_NoF(l) == Len(l.predict_a_list) + Len(l.predict_b_list)

\* predict_total and label_total
PredictTotal(l) == Len(l.predict_a_list) + Len(l.predict_b_list) + Len(l.predict_f_list)
LabelTotal(l) == Len(l.label_a_list) + Len(l.label_b_list) + Len(l.label_f_list)

\* The running total added to the segment instead of the row's share.
RowDelta_Total(current, start) == current

\* "counter - row_counter_start"
RowDelta(current, start) == current - start

\* The three error columns and the six counters are initialised.
Stage2Start ==
    /\ \/ stage = "stage1" /\ idx > Len(data) /\ run' = 1
       \/ stage = "done" /\ run < MaxRuns /\ run' = run + 1
    /\ data' = [i \in 1..Len(data) |->
                   [data[i] EXCEPT !.precision_error = <<>>, !.recall_error = <<>>,
                                   !.classification_error = <<>>]]
    /\ jingque_c' = InitialCount(jingque_c)
    /\ jingque_c_all' = InitialCount(jingque_c_all)
    /\ zhaohui_c' = InitialCount(zhaohui_c)
    /\ zhaohui_c_all' = InitialCount(zhaohui_c_all)
    /\ fenlei_c' = InitialCount(fenlei_c)
    /\ fenlei_c_all' = InitialCount(fenlei_c_all)
    /\ industry_stats' = <<>>
    /\ idx' = 1
    /\ row_pc' = "row"
    /\ stage' = "stage2"
    /\ UNCHANGED <<llm_call_total, pos, jingque_error_list, zhaohui_error_list,
                   fenlei_error_list, row_start, lists, llm_results, first_run>>
    /\ UNCHANGED <<parseVars, oracleVars>>

\* The head of an iteration: segment filter, accumulator, record count,
\* the start values, and the skip of an empty row.
Stage2RowBegin ==
    /\ stage = "stage2"
    /\ row_pc = "row"
    /\ idx <= Len(data)
    /\ jingque_error_list' = <<>>
    /\ zhaohui_error_list' = <<>>
    /\ fenlei_error_list' = <<>>
    /\ LET industry == data[idx].category
           l == Lists(data[idx])
           stats == IF industry \in DOMAIN industry_stats
                    THEN industry_stats
                    ELSE (industry :> ZeroStats) @@ industry_stats
       IN  IF ~IsTarget(industry)
           THEN /\ idx' = idx + 1
                /\ UNCHANGED <<industry_stats, row_start, row_pc, pos, lists,
                               llm_results>>
           ELSE /\ industry_stats' =
                       [stats EXCEPT ![industry].count = stats[industry].count + 1]
                /\ row_start' =
                       [jingque_c |-> jingque_c, jingque_c_all |-> jingque_c_all,
                        zhaohui_c |-> zhaohui_c, zhaohui_c_all |-> zhaohui_c_all,
                        fenlei_c |-> fenlei_c, fenlei_c_all |-> fenlei_c_all]
                /\ lists' = l
                /\ IF AllEmpty(l)
                   THEN /\ idx' = idx + 1
                        /\ UNCHANGED <<row_pc, pos, llm_results>>
                   ELSE /\ llm_results' = LoadResults(data[idx])
                        /\ row_pc' = "precision"
                        /\ pos' = 1
                        /\ UNCHANGED idx
    /\ UNCHANGED <<data, stage, run, llm_call_total, jingque_c, jingque_c_all,
                   zhaohui_c, zhaohui_c_all, fenlei_c, fenlei_c_all, first_run>>
    /\ UNCHANGED <<parseVars, oracleVars>>

\* One iteration of the three precision loops.
Stage2PrecisionItem ==
    /\ stage = "stage2"
    /\ row_pc = "precision"
    /\ LET items == PredItems(lists)
       IN  /\ pos <= Len(items)
           /\ LET it == items[pos]
                  out == PrecisionOutcome(it, lists, llm_results)
              IN  /\ jingque_c' = jingque_c + out.hit
                  /\ fenlei_c' = fenlei_c + out.cls
                  /\ fenlei_error_list' =
                        IF out.fenlei_error
                        THEN Append(fenlei_error_list, ErrorEntry(it.origin, it.value))
                        ELSE fenlei_error_list
                  /\ jingque_error_list' =
                        IF out.jingque_error
                        THEN Append(jingque_error_list, ErrorEntry(it.origin, it.value))
                        ELSE jingque_error_list
    /\ pos' = pos + 1
    /\ UNCHANGED <<data, stage, run, idx, row_pc, llm_call_total, jingque_c_all,
                   zhaohui_c, zhaohui_c_all, fenlei_c_all, industry_stats,
                   zhaohui_error_list, row_start, lists, llm_results, first_run>>
    /\ UNCHANGED <<parseVars, oracleVars>>

\* The precision and classification denominators, after the three loops.
Stage2PrecisionTotals ==
    /\ stage = "stage2"
    /\ row_pc = "precision"
    /\ pos > Len(PredItems(lists))
    /\ jingque_c_all' = jingque_c_all + PredictTotal(lists)
    /\ fenlei_c_all' = fenlei_c_all + PredictTotal(lists)
    /\ row_pc' = "recall"
    /\ pos' = 1
    /\ UNCHANGED <<data, stage, run, idx, llm_call_total, jingque_c, zhaohui_c,
                   zhaohui_c_all, fenlei_c, industry_stats, jingque_error_list,
                   zhaohui_error_list, fenlei_error_list, row_start, lists, llm_results, first_run>>
    /\ UNCHANGED <<parseVars, oracleVars>>

\* One iteration of the three recall loops.
Stage2RecallItem ==
    /\ stage = "stage2"
    /\ row_pc = "recall"
    /\ LET items == LabelItems(lists)
       IN  /\ pos <= Len(items)
           /\ LET it == items[pos]
                  out == RecallOutcome(it, lists, llm_results)
              IN  /\ zhaohui_c' = zhaohui_c + out.hit
                  /\ zhaohui_error_list' =
                        IF out.zhaohui_error
                        THEN Append(zhaohui_error_list, ErrorEntry(it.origin, it.value))
                        ELSE zhaohui_error_list
    /\ pos' = pos + 1
    /\ UNCHANGED <<data, stage, run, idx, row_pc, llm_call_total, jingque_c,
                   jingque_c_all, zhaohui_c_all, fenlei_c, fenlei_c_all, industry_stats,
                   jingque_error_list, fenlei_error_list, row_start, lists, llm_results, first_run>>
    /\ UNCHANGED <<parseVars, oracleVars>>

\* The recall denominator, the error columns and the segment's accumulator.
Stage2RowEnd ==
    /\ stage = "stage2"
    /\ row_pc = "recall"
    /\ LET industry == data[idx].category
           s == industry_stats[industry]
       IN  /\ pos > Len(LabelItems(lists))
           /\ zhaohui_c_all' = zhaohui_c_all + LabelTotal(lists)
           /\ data' = [data EXCEPT
                          ![idx].precision_error = Join(jingque_error_list, ";"),
                          ![idx].recall_error = Join(zhaohui_error_list, ";"),
                          ![idx].classification_error = Join(fenlei_error_list, ";")]
           /\ industry_stats' = [industry_stats EXCEPT ![industry] =
                 [s EXCEPT
                    !.jingque_c = @ + RowDelta(jingque_c, row_start.jingque_c),
                    !.jingque_c_all = @ + RowDelta(jingque_c_all, row_start.jingque_c_all),
                    !.zhaohui_c = @ + RowDelta(zhaohui_c, row_start.zhaohui_c),
                    !.zhaohui_c_all = @ + RowDelta(zhaohui_c_all', row_start.zhaohui_c_all),
                    !.fenlei_c = @ + RowDelta(fenlei_c, row_start.fenlei_c),
                    !.fenlei_c_all = @ + RowDelta(fenlei_c_all, row_start.fenlei_c_all)]]
    /\ idx' = idx + 1
    /\ row_pc' = "row"
    /\ UNCHANGED <<stage, run, llm_call_total, jingque_c, jingque_c_all, zhaohui_c,
                   fenlei_c, fenlei_c_all, pos, jingque_error_list,
                   zhaohui_error_list, fenlei_error_list, row_start, lists, llm_results, first_run>>
    /\ UNCHANGED <<parseVars, oracleVars>>

\* What a run of stage 2 produces: the counters, the accumulators and the
\* three error columns.
Results ==
    [jingque_c |-> jingque_c, jingque_c_all |-> jingque_c_all,
     zhaohui_c |-> zhaohui_c, zhaohui_c_all |-> zhaohui_c_all,
     fenlei_c |-> fenlei_c, fenlei_c_all |-> fenlei_c_all,
     industry_stats |-> industry_stats,
     errors |-> [i \in 1..Len(data) |->
                    <<data[i].precision_error, data[i].recall_error,
                      data[i].classification_error>>]]

\* The loop over the rows has ended: the function returns.
Stage2Return ==
    /\ stage = "stage2"
    /\ row_pc = "row"
    /\ idx > Len(data)
    /\ stage' = "done"
    /\ first_run' = IF run = 1 THEN Results ELSE first_run
    /\ UNCHANGED <<data, run, idx, row_pc, llm_call_total, jingque_c, jingque_c_all,
                   zhaohui_c, zhaohui_c_all, fenlei_c, fenlei_c_all, industry_stats,
                   pos, jingque_error_list, zhaohui_error_list, fenlei_error_list,
                   row_start, lists, llm_results>>
    /\ UNCHANGED <<parseVars, oracleVars>>

Next ==
    \/ Stage1Start
    \/ Stage1Row
    \/ Stage2Start
    \/ Stage2RowBegin
    \/ Stage2PrecisionItem
    \/ Stage2PrecisionTotals
    \/ Stage2RecallItem
    \/ Stage2RowEnd
    \/ Stage2Return

\* The pipeline before a table is loaded.
ZeroStart ==
    [jingque_c |-> 0, jingque_c_all |-> 0, zhaohui_c |-> 0, zhaohui_c_all |-> 0,
     fenlei_c |-> 0, fenlei_c_all |-> 0]

PipelineIdleBut(table) ==
    /\ data = table
    /\ stage = "load"
    /\ idx = 1
    /\ llm_call_total = 0
    /\ run = 0
    /\ jingque_c = 0 /\ jingque_c_all = 0
    /\ zhaohui_c = 0 /\ zhaohui_c_all = 0
    /\ fenlei_c = 0 /\ fenlei_c_all = 0
    /\ industry_stats = <<>>
    /\ row_pc = "row"
    /\ pos = 1
    /\ jingque_error_list = <<>>
    /\ zhaohui_error_list = <<>>
    /\ fenlei_error_list = <<>>
    /\ row_start = ZeroStart
    /\ lists = NoLists
    /\ llm_results = <<>>
    /\ first_run = <<>>

PipelineIdle == PipelineIdleBut(<<>>)

(***************************************************************************)
(* Specification of the pipeline: main() runs stage 1 and then stage 2 on  *)
(* a table; stage 2 may then be run again on the table it left.            *)
(* The table is either up to MaxRows rows with one value, or one row of    *)
(* the richer cells.                                                       *)
(***************************************************************************)
X == <<"x">>
Y == <<"y">>

\* A row as load_data gives it: the three columns of each stage are absent.
Row(category, F, A, B, pred_F, pred_A, pred_B) ==
    [category |-> category, F |-> F, A |-> A, B |-> B,
     pred_F |-> pred_F, pred_A |-> pred_A, pred_B |-> pred_B,
     llm_judge_results |-> NaN, llm_call_count |-> 0,
     precision_error |-> NaN, recall_error |-> NaN, classification_error |-> NaN]

Categories == {"fitness_center", "billiards", "other"}

SmallRows ==
    {Row(c, NaN, a, NaN, NaN, pa, NaN) :
        c \in Categories, a \in {<<>>, X}, pa \in {<<>>, X}}

RichRows ==
    {Row(c, f, a, b, pf, pa, pb) :
        c \in {"sports_training", "other"},
        f \in {StrWu, <<"k", FWCOLON, "x">>, <<"k", COLON>>},
        a \in {NaN, X, <<"x", COMMA, SPACE, "x">>},
        b \in {<<>>, Y},
        pf \in {<<>>, <<"k", COLON, "x">>},
        pa \in {<<>>, X, <<"x", FWCOMMA, "x">>},
        pb \in {<<>>, Y}}

Tables ==
    UNION {[1..n -> SmallRows] : n \in 0..MaxRows} \cup {<<r>> : r \in RichRows}

Init ==
    /\ ParseIdle
    /\ OracleIdle
    /\ \E table \in Tables : PipelineIdleBut(table)

Spec == Init /\ [][Next]_vars

(***************************************************************************)
(* Properties of the pipeline                                              *)
(***************************************************************************)
CounterNames ==
    {"jingque_c", "jingque_c_all", "zhaohui_c", "zhaohui_c_all", "fenlei_c",
     "fenlei_c_all"}

Global ==
    [jingque_c |-> jingque_c, jingque_c_all |-> jingque_c_all,
     zhaohui_c |-> zhaohui_c, zhaohui_c_all |-> zhaohui_c_all,
     fenlei_c |-> fenlei_c, fenlei_c_all |-> fenlei_c_all]

RECURSIVE SegmentSum(_, _)
\* The sum of one counter over the accumulators of the first n segments.
SegmentSum(name, n) ==
    IF n = 0 THEN 0
    ELSE SegmentSum(name, n - 1) +
         (IF TARGET_INDUSTRIES[n] \in DOMAIN industry_stats
          THEN industry_stats[TARGET_INDUSTRIES[n]][name]
          ELSE 0)

\* Stage 2 is between two rows, or has returned.
BetweenRows == stage \in {"stage2", "done"} /\ row_pc = "row"

\* C1: after any prefix of the table, every one of the six counters summed
\* over the segment accumulators equals the global counter.
C1_SegmentsSumToGlobal ==
    BetweenRows =>
        \A name \in CounterNames :
            SegmentSum(name, Len(TARGET_INDUSTRIES)) = Global[name]

C1_Witness_TwoSegments ==
    /\ stage = "done"
    /\ Cardinality(DOMAIN industry_stats) = 2
    /\ \A c \in DOMAIN industry_stats :
          industry_stats[c].jingque_c_all > 0 /\ industry_stats[c].zhaohui_c > 0
    /\ fenlei_c > 0

\* A row stage 2 does not skip.
Scored(row) == IsTarget(row.category) /\ ~AllEmpty(Lists(row))

RECURSIVE CumulativePredicted(_)
\* The predicted items of the scored rows among the first n.
CumulativePredicted(n) ==
    IF n = 0 THEN 0
    ELSE CumulativePredicted(n - 1) +
         (IF Scored(data[n]) THEN Len(PredItems(Lists(data[n]))) ELSE 0)

RECURSIVE CumulativeLabeled(_)
\* The labeled items of the scored rows among the first n.
CumulativeLabeled(n) ==
    IF n = 0 THEN 0
    ELSE CumulativeLabeled(n - 1) +
         (IF Scored(data[n]) THEN Len(LabelItems(Lists(data[n]))) ELSE 0)

C2_DenominatorsAreCounts ==
    (stage = "stage2" /\ row_pc = "row") =>
        /\ jingque_c_all = CumulativePredicted(idx - 1)
        /\ fenlei_c_all = jingque_c_all
        /\ zhaohui_c_all = CumulativeLabeled(idx - 1)

C2_DenominatorsGrow ==
    stage = "stage2" =>
        /\ jingque_c_all' >= jingque_c_all
        /\ fenlei_c_all' >= fenlei_c_all
        /\ zhaohui_c_all' >= zhaohui_c_all

\* C2: after every record the precision and classification denominators are
\* equal and count the predicted items of the scored records so far, the
\* recall denominator counts their labeled items, and within a run no
\* denominator decreases.
C2_Denominators == []C2_DenominatorsAreCounts /\ [][C2_DenominatorsGrow]_vars

C2_Witness_TwoRecords ==
    /\ stage = "stage2" /\ row_pc = "row" /\ idx = 3
    /\ Scored(data[1]) /\ Scored(data[2])
    /\ jingque_c_all = 2 /\ zhaohui_c_all >= 1

\* The three loops of a row have ended, its totals are not yet added to the
\* segment.
RowScored ==
    stage = "stage2" /\ row_pc = "recall" /\ pos > Len(LabelItems(lists))

\* The parsed predictions equal the parsed labels in every category.
Identical(l) ==
    /\ l.predict_a_list = l.label_a_list
    /\ l.predict_b_list = l.label_b_list
    /\ l.predict_f_list = l.label_f_list

\* Stage 1 is past row i.
Stage1Past(i) == stage \in {"stage2", "done"} \/ (stage = "stage1" /\ idx > i)

\* C3: a scored record whose predictions are identical to its labels gets no
\* consultation in stage 1, and in stage 2 as many precision hits and
\* classification hits as predicted items and as many recall hits as
\* labeled items.
C3_IdenticalListsScoreOne ==
    /\ \A i \in 1..Len(data) :
          (Stage1Past(i) /\ Scored(data[i]) /\ Identical(Lists(data[i]))) =>
              /\ data[i].llm_judge_results = JsonDumps(<<>>)
              /\ data[i].llm_call_count = 0
    /\ (RowScored /\ Identical(lists)) =>
          /\ jingque_c - row_start.jingque_c = Len(PredItems(lists))
          /\ zhaohui_c - row_start.zhaohui_c = Len(LabelItems(lists))
          /\ fenlei_c - row_start.fenlei_c = Len(PredItems(lists))

\* C4: a second run of stage 2, on the table the first run left and with the
\* same consultation log, produces the counters, the segment accumulators
\* and the error columns of the first run.
C4_Stage2Idempotent == (stage = "done" /\ run >= 2) => Results = first_run

C4_Witness_SecondRun ==
    /\ stage = "done" /\ run = 2
    /\ jingque_c > 0 /\ zhaohui_c > 0
    /\ \E i \in 1..Len(data) : data[i].precision_error # <<>>

IsJson(text) == Len(text) = 2 /\ text[1] = "json"

\* C5: the consultation log of a record holds at most one consultation for
\* an (origin, value) pair.
C5_OneConsultationPerKey ==
    \A i \in 1..Len(data) :
        IsJson(data[i].llm_judge_results) =>
            LET log == JsonLoads(data[i].llm_judge_results)
            IN  \A j, k \in 1..Len(log) :
                    (log[j].type = log[k].type /\ log[j].value = log[k].value)
                        => j = k

\* The precision loops are at a predicted item.
AtPrecisionItem ==
    stage = "stage2" /\ row_pc = "precision" /\ pos <= Len(PredItems(lists))

CurItem == PredItems(lists)[pos]

CurInZhuguan == InList(CurItem.value, lists.label_a_list \o lists.label_b_list)
CurInKeguan == InList(CurItem.value, lists.label_f_list)

\* An item without exact match whose cached response is the sentinel.
AtErrorItem ==
    /\ AtPrecisionItem
    /\ ~CurInZhuguan /\ ~CurInKeguan
    /\ DictGet(llm_results, PredictType(CurItem.origin), CurItem.value) = ERROR

C6_ErrorItemStep ==
    AtErrorItem =>
        /\ jingque_c' = jingque_c
        /\ fenlei_c' = fenlei_c
        /\ jingque_error_list' =
              Append(jingque_error_list, <<CurItem.origin, ",">> \o CurItem.value)
        /\ fenlei_error_list' = fenlei_error_list
        /\ stage' = "stage2" /\ row_pc' = "precision" /\ pos' = pos + 1

\* Every predicted item of the row, whatever became of it, is one unit of
\* the two denominators.
C6_DenominatorStep ==
    (stage = "stage2" /\ row_pc = "precision" /\ row_pc' = "recall") =>
        /\ jingque_c_all' = jingque_c_all + Len(PredItems(lists))
        /\ fenlei_c_all' = fenlei_c_all + Len(PredItems(lists))

\* C6: a predicted item without exact match whose cached response is
\* "error" leaves both numerators alone, is appended to the precision-error
\* trace as "<origin>,<value>", counts in both denominators, and the loop
\* goes on to the next item.
C6_OracleErrorIsSoft == [][C6_ErrorItemStep /\ C6_DenominatorStep]_vars

C6_Witness_ErrorLogged ==
    /\ stage = "stage2" /\ row_pc = "recall"
    /\ jingque_error_list = <<<<"a", ",", "x">>>>
    /\ jingque_c = 0
    /\ jingque_c_all = 1

\* C7: an exactly matched predicted item is one precision hit; it is a
\* classification hit when an A or B item is in the subjective list or an F
\* item is only in the objective list, and otherwise a classification error
\* logged as "<origin>,<value>".
C7_ExactItemStep ==
    (AtPrecisionItem /\ (CurInZhuguan \/ CurInKeguan)) =>
        /\ jingque_c' = jingque_c + 1
        /\ jingque_error_list' = jingque_error_list
        /\ IF \/ CurItem.origin = "f" /\ CurInZhuguan
              \/ CurItem.origin \in {"a", "b"} /\ ~CurInZhuguan
           THEN /\ fenlei_c' = fenlei_c
                /\ fenlei_error_list' =
                      Append(fenlei_error_list,
                             <<CurItem.origin, ",">> \o CurItem.value)
           ELSE /\ fenlei_c' = fenlei_c + 1
                /\ fenlei_error_list' = fenlei_error_list

C7_ExactMatchRule == [][C7_ExactItemStep]_vars

C7_Witness_FInSubjective ==
    /\ stage = "stage2" /\ row_pc = "recall"
    /\ InList(X, lists.predict_f_list)
    /\ InList(X, lists.label_a_list)
    /\ InList(X, lists.label_f_list)
    /\ InList(<<"f", ",", "x">>, fenlei_error_list)
    /\ jingque_c = Len(PredItems(lists))

\* Either stage is at a row of a tracked segment whose six lists are empty.
AtEmptyTrackedRow ==
    /\ row_pc = "row"
    /\ idx <= Len(data)
    /\ IsTarget(data[idx].category)
    /\ AllEmpty(Lists(data[idx]))

\* The step taken from an empty tracked row changes neither the log nor the
\* counters nor the accumulators.
C11_EmptyRowStep ==
    /\ (stage = "stage1" /\ AtEmptyTrackedRow) =>
          /\ llm_call_total' = llm_call_total
          /\ data' = data
    /\ (stage = "stage2" /\ AtEmptyTrackedRow) =>
          /\ Global' = Global
          /\ industry_stats' = industry_stats

\* C11: a tracked row whose six parsed lists are empty is skipped: stage 1
\* makes no oracle call for it, and stage 2 leaves the global counters and
\* the segment accumulators (counters, record count, existence) unchanged.
C11_EmptyRowSkipped == [][C11_EmptyRowStep]_vars

\* The recall loops are at a labeled item.
AtRecallItem ==
    stage = "stage2" /\ row_pc = "recall" /\ pos <= Len(LabelItems(lists))

CurLabelItem == LabelItems(lists)[pos]

\* The cached reply of the item a loop of stage 2 is at.
CurPredReply == DictGet(llm_results, PredictType(CurItem.origin), CurItem.value)
CurLabelReply == DictGet(llm_results, LabelType(CurLabelItem.origin), CurLabelItem.value)

\* The reply parses as the two-field object and its judge_1 says no.
StructuredNo(res) ==
    /\ HasWord(res, LBRACE) /\ HasWord(res, RBRACE)
    /\ parse_llm_result(res) # <<None, None>>
    /\ parse_llm_result(res)[1] = <<FOU>>

\* An unmatched item whose cached reply is a structured no adds no hit.
C12_StructuredNoStep ==
    /\ (AtPrecisionItem /\ PredUnmatched(lists, CurItem.value)
           /\ StructuredNo(CurPredReply)) => jingque_c' = jingque_c
    /\ (AtRecallItem /\ LabelUnmatched(lists, CurLabelItem.value)
           /\ StructuredNo(CurLabelReply)) => zhaohui_c' = zhaohui_c

\* C12: in stage 2 a cached reply that parses as the structured object and
\* whose judge_1 field says no never gives a precision hit or a recall hit,
\* whatever other words the reply holds.
C12_StructuredNoIsNoHit == [][C12_StructuredNoStep]_vars

\* The six origins of a consultation.
Types == {"predict_a", "predict_b", "predict_f", "label_a", "label_b", "label_f"}

\* The list an origin names, and the combined lists of the opposite side.
ListOfType(l, type) ==
    CASE type = "predict_a" -> l.predict_a_list
      [] type = "predict_b" -> l.predict_b_list
      [] type = "predict_f" -> l.predict_f_list
      [] type = "label_a" -> l.label_a_list
      [] type = "label_b" -> l.label_b_list
      [] type = "label_f" -> l.label_f_list

OppositeSide(l, type) ==
    IF type \in {"predict_a", "predict_b", "predict_f"}
    THEN l.label_a_list \o l.label_b_list \o l.label_f_list
    ELSE l.predict_a_list \o l.predict_b_list \o l.predict_f_list

\* How often a value occurs in a list, and a key in a log.
Occurrences(list, v) == Cardinality({k \in 1..Len(list) : list[k] = v})

LogCount(log, type, v) ==
    Cardinality({k \in 1..Len(log) : log[k].type = type /\ log[k].value = v})

\* The log of a row holds one consultation per occurrence of an unmatched
\* item, under the item's origin, and nothing else.
LogIsExact(row) ==
    LET l == Lists(row)
        log == JsonLoads(row.llm_judge_results)
        values == UNION {{ListOfType(l, t)[k] : k \in 1..Len(ListOfType(l, t))} : t \in Types}
                      \cup {log[k].value : k \in 1..Len(log)}
    IN  /\ row.llm_call_count = Len(log)
        /\ \A k \in 1..Len(log) : log[k].type \in Types
        /\ \A t \in Types : \A v \in values :
              LogCount(log, t, v) =
                  IF InList(v, OppositeSide(l, t)) THEN 0
                  ELSE Occurrences(ListOfType(l, t), v)

\* Every row stage 1 has passed has the exact log, or none if it is not scored.
C13_LogsAreExact ==
    \A i \in 1..Len(data) :
        Stage1Past(i) =>
            IF Scored(data[i])
            THEN IsJson(data[i].llm_judge_results) /\ LogIsExact(data[i])
            ELSE data[i].llm_judge_results = <<>> /\ data[i].llm_call_count = 0

\* Every lookup of stage 2 for an unmatched item finds an entry of the log.
C13_LookupsFind ==
    /\ (AtPrecisionItem /\ ~InList(CurItem.value, OppositeSide(lists, "predict_a"))) =>
          LogCount(llm_results, PredictType(CurItem.origin), CurItem.value) >= 1
    /\ (AtRecallItem /\ ~InList(CurLabelItem.value, OppositeSide(lists, "label_a"))) =>
          LogCount(llm_results, LabelType(CurLabelItem.origin), CurLabelItem.value) >= 1

\* C13: stage 1 consults the oracle exactly for the unmatched items, each
\* under its origin, and stage 2 finds an entry for every unmatched item it
\* looks up: the default for a missing key is never used.
C13_ConsultedExactlyUnmatched == C13_LogsAreExact /\ C13_LookupsFind

\* A row with a matched item x and an unmatched item y: the log holds y only,
\* and the precision loop is at y.
C13_Witness_UnmatchedFound ==
    /\ AtPrecisionItem
    /\ CurItem = [origin |-> "b", value |-> Y]
    /\ InList(X, lists.predict_a_list) /\ InList(X, lists.label_a_list)
    /\ ~InList(Y, OppositeSide(lists, "predict_b"))
    /\ Len(llm_results) = 1
    /\ llm_results[1].type = "predict_b" /\ llm_results[1].value = Y

\* Stage 2 is inside the loops of a scored row.
InRow == stage = "stage2" /\ row_pc \in {"precision", "recall"}

\* The classification hits and the classification-error entries of the row
\* add up to its precision hits.
C14_RowBalance ==
    InRow =>
        (fenlei_c - row_start.fenlei_c) + Len(fenlei_error_list)
            = jingque_c - row_start.jingque_c

\* The classification numerator is at most the precision numerator.
C14_NumeratorsOrdered ==
    stage \in {"stage2", "done"} =>
        /\ fenlei_c <= jingque_c
        /\ \A industry \in DOMAIN industry_stats :
              industry_stats[industry].fenlei_c <= industry_stats[industry].jingque_c

\* C14: for every row of stage 2 the classification hits plus the entries of
\* the classification-error trace equal the precision hits of the row, so the
\* classification numerator never exceeds the precision numerator, globally
\* and in every segment, after any prefix of rows.
C14_ClassificationWithinPrecision == C14_RowBalance /\ C14_NumeratorsOrdered

\* A scored row with a classification hit, a classification error and a
\* predicted item that is no hit.
C14_Witness_HitErrorMiss ==
    /\ RowScored
    /\ fenlei_c - row_start.fenlei_c >= 1
    /\ Len(fenlei_error_list) >= 1
    /\ jingque_c - row_start.jingque_c < Len(PredItems(lists))

(***************************************************************************)
(* Specification of the parsers: a raw cell is drawn, a parser is applied. *)
(***************************************************************************)
Alphabet == {"x", "n", "a", SPACE, COMMA, FWCOMMA, COLON, FWCOLON, WU}

StringsUpTo(n) == UNION {[1..k -> Alphabet] : k \in 0..n}

RawCells == StringsUpTo(MaxCellLen) \cup {NaN}

ParseInit ==
    /\ cell \in RawCells
    /\ parser = "none"
    /\ parsed = <<>>
    /\ OracleIdle
    /\ PipelineIdle

ParseLabelF ==
    /\ parser = "none"
    /\ parser' = "parse_f_attribute_string"
    /\ parsed' = parse_f_attribute_string(cell)
    /\ UNCHANGED cell
    /\ UNCHANGED <<oracleVars, pipelineVars>>

ParsePredF ==
    /\ parser = "none"
    /\ parser' = "parse_pred_f_attribute"
    /\ parsed' = parse_pred_f_attribute(cell)
    /\ UNCHANGED cell
    /\ UNCHANGED <<oracleVars, pipelineVars>>

ParseAB ==
    /\ parser = "none"
    /\ parser' = "parse_ab_attribute"
    /\ parsed' = parse_ab_attribute(cell)
    /\ UNCHANGED cell
    /\ UNCHANGED <<oracleVars, pipelineVars>>

ParseNext == ParseLabelF \/ ParsePredF \/ ParseAB

SpecParse == ParseInit /\ [][ParseNext]_vars

TrimmedNonEmpty(s) == s # <<>> /\ Strip(s) = s

\* C10: every element a parser returns is a non-empty string without leading
\* or trailing whitespace.
C10_ParsersReturnTrimmedNonEmpty ==
    parser # "none" => \A i \in 1..Len(parsed) : TrimmedNonEmpty(parsed[i])

(***************************************************************************)
(* Specification of the oracle client: llm_check is called MaxCalls times. *)
(* Every started step of the function is taken, and every request either   *)
(* returns or raises.                                                      *)
(***************************************************************************)
OracleInit == ParseIdle /\ OracleIdle /\ PipelineIdle

SpecOracle ==
    /\ OracleInit
    /\ [][OracleNext]_vars
    /\ WF_vars(LlmCheckAttempt)
    /\ WF_vars(LlmCheckSuccess \/ LlmCheckFailure)

Returned == lc_pc = "idle" /\ calls > 0

\* A call has sent at most max_retries requests; what it returned is the
\* reply of the request that succeeded, or "error" after max_retries failures.
C8_ReturnValue ==
    /\ attempts <= max_retries
    /\ Returned =>
          \/ got_reply \in Replies /\ lc_ret = got_reply
          \/ got_reply = None /\ attempts = max_retries /\ lc_ret = ERROR

C9_AttemptsSpaced ==
    [][(attempt_total' # attempt_total /\ attempt_total >= 1)
          => last_request_time' >= last_request_time + request_interval]_vars

C9_Witness_RateSlept == attempt_total >= 2 /\ calls >= 2 /\ rate_slept

====
